---- MODULE Spec2Model ----
(***************************************************************************)
(* Solar-geometry and threshold-boundary engine of vitamind                *)
(* (utils/solarCalculations.js) as a state machine.                        *)
(*                                                                         *)
(* Units.  Angles are integers in millidegrees (45 degrees = 45000).       *)
(* Instants are whole minutes since 2024-01-01T00:00:00Z, so a UTC day is  *)
(* 1440 consecutive instants and UTC midnight is a multiple of 1440.       *)
(* Sines and cosines are integers scaled by TrigScale.  Where JavaScript    *)
(* arithmetic can produce NaN or an infinity (a division by zero, an       *)
(* Invalid Date) the value is kept apart from the integers.                *)
(*                                                                         *)
(* The engine calls the suncalc library (SunCalc.getTimes and              *)
(* SunCalc.getPosition).  The library is rendered here in the same fixed   *)
(* point, formula by formula: mean anomaly, equation of centre, ecliptic   *)
(* longitude, declination, julian cycle, solar transit, hour angle,        *)
(* altitude.                                                               *)
(***************************************************************************)
EXTENDS Integers, Sequences, FiniteSets, TLC

(***************************************************************************)
(* Fixed-point trigonometry                                                *)
(***************************************************************************)
TrigScale == 4 * 10000

\* round(TrigScale * sin(k degrees)) for k = 0..90, at index k + 1
SinTable ==
  << 0, 698, 1396, 2093, 2790, 3486, 4181, 4875, 5567, 6257, 6946, 7632, 8316, 8998, 9677,
     10353, 11025, 11695, 12361, 13023, 13681, 14335, 14984, 15629, 16269, 16905, 17535, 18160,
     18779, 19392, 20000, 20602, 21197, 21786, 22368, 22943, 23511, 24073, 24626, 25173, 25712,
     26242, 26765, 27280, 27786, 28284, 28774, 29254, 29726, 30188, 30642, 31086, 31520, 31945,
     32361, 32766, 33162, 33547, 33922, 34287, 34641, 34985, 35318, 35640, 35952, 36252, 36542,
     36820, 37087, 37343, 37588, 37821, 38042, 38252, 38450, 38637, 38812, 38975, 39126, 39265,
     39392, 39508, 39611, 39702, 39781, 39848, 39903, 39945, 39976, 39994, 40000 >>

Abs(x) == IF x < 0 THEN 0 - x ELSE x

Sign(x) == IF x < 0 THEN 0 - 1 ELSE IF x > 0 THEN 1 ELSE 0

\* a / b rounded to the nearest integer (b > 0), halves away from zero
RoundDiv(a, b) == Sign(a) * ((Abs(a) + b \div 2) \div b)

\* angle reduced to [0, 360000)
Mod360(a) == a % 360000

\* angle reduced to (-180000, 180000]
Wrap180(a) == LET m == Mod360(a) IN IF m > 180000 THEN m - 360000 ELSE m

\* sine of an angle in [0, 90000], by linear interpolation in SinTable
SinQ(a) ==
  LET k == a \div 1000
      f == a % 1000
  IN  IF k >= 90 THEN SinTable[91]
      ELSE SinTable[k + 1] + RoundDiv((SinTable[k + 2] - SinTable[k + 1]) * f, 1000)

\* Math.sin of an angle in millidegrees, scaled by TrigScale
Sin(a) ==
  LET m == Mod360(a)
  IN  IF m <= 90000 THEN SinQ(m)
      ELSE IF m <= 180000 THEN SinQ(180000 - m)
      ELSE IF m <= 270000 THEN 0 - SinQ(m - 180000)
      ELSE 0 - SinQ(360000 - m)

\* Math.cos of an angle in millidegrees, scaled by TrigScale
Cos(a) == Sin(a + 90000)

\* the index k in lo..hi with SinTable[k] <= x < SinTable[k+1] (bisection)
RECURSIVE Bracket(_, _, _)
Bracket(x, lo, hi) ==
  IF hi - lo <= 1 THEN lo
  ELSE LET mid == (lo + hi) \div 2
       IN  IF SinTable[mid] <= x THEN Bracket(x, mid, hi) ELSE Bracket(x, lo, mid)

\* Math.asin of x / TrigScale for |x| <= TrigScale, in millidegrees
Asin(x) ==
  LET ax == Abs(x)
      k  == Bracket(ax, 1, 91)
      a  == IF ax >= SinTable[91] THEN 90000
            ELSE (k - 1) * 1000
                 + RoundDiv((ax - SinTable[k]) * 1000, SinTable[k + 1] - SinTable[k])
  IN  Sign(x) * a

\* floor of the square root (bisection on lo..hi, lo*lo <= n < hi*hi)
RECURSIVE Isqrt(_, _, _)
Isqrt(n, lo, hi) ==
  IF hi - lo <= 1 THEN lo
  ELSE LET mid == (lo + hi) \div 2
       IN  IF mid * mid <= n THEN Isqrt(n, mid, hi) ELSE Isqrt(n, lo, mid)

(***************************************************************************)
(* suncalc, in fixed point.  One rotation unit is a millidegree of the     *)
(* Earth's turn: 360000 units a day, 250 units a minute.                   *)
(***************************************************************************)
\* toDays(date), split as whole UTC days and minutes of the day
DayOf(t) == t \div (24 * 60)
MinuteOf(t) == t % (24 * 60)

\* solarMeanAnomaly(d) = 357.5291 + 0.98560028 d degrees; 356.808 degrees at
\* the model's epoch
solarMeanAnomaly(t) ==
  Mod360(356808 + RoundDiv(DayOf(t) * 985600, 1000) + RoundDiv(MinuteOf(t) * 6844, 10000))

\* eclipticLongitude(M) = M + C + P + 180 with the equation of centre
\* C = 1.9148 sin M + 0.02 sin 2M and the perihelion P = 102.9372
eclipticLongitude(M) ==
  Mod360(M + RoundDiv(19148 * Sin(M), 10 * TrigScale) + RoundDiv(20 * Sin(2 * M), TrigScale)
           + 102937 + 180000)

\* sin(declination(L, 0)) = sin(e) sin(L) with the obliquity e = 23.4397
sinDeclination(L) == RoundDiv(Sin(23440) * Sin(L), TrigScale)

declination(L) == Asin(sinDeclination(L))

\* the terms 0.0053 sin M - 0.0069 sin 2L (days) of solarTransitJ, in rotation units
transitCorrection(M, L) == RoundDiv(1908 * Sin(M) - 2484 * Sin(2 * L), TrigScale)

\* julianCycle(d, lw) = Math.round(d - J0 - lw / 2pi) with J0 = 0.0009 days (324
\* units), counted from the model's epoch; Math.round rounds halves up
julianCycle(t, lng) == (250 * (t + 720) - 324 + lng + 180000) \div 360000

\* approxTransit(0, lw, n) = J0 + lw / 2pi + n, in rotation units since the epoch
approxTransit(lng, n) == n * 360000 - 180000 + 324 - lng

\* Declination of the sun at instant t
DeclinationAt(t) == declination(eclipticLongitude(solarMeanAnomaly(t)))

\* SunCalc.getTimes(date, lat, lng).solarNoon: the transit of the julian cycle of
\* `date`, as an instant.  It does not depend on the latitude.
solarNoonOf(t, lng) ==
  LET ds == approxTransit(lng, julianCycle(t, lng))
      M  == solarMeanAnomaly(RoundDiv(ds, 250))
      L  == eclipticLongitude(M)
  IN  RoundDiv(ds + transitCorrection(M, L), 250)

\* hourAngle(h0, phi, dec) = acos((sin h0 - sin phi sin dec) / (cos phi cos dec))
\* for the horizon altitude h0 = -0.833 degrees; NaN (here <<>>) when the
\* quotient is outside [-1, 1] or is 0/0
hourAngle(lat, dec) ==
  LET num == Sin(0 - 833) - RoundDiv(Sin(lat) * Sin(dec), TrigScale)
      den == RoundDiv(Cos(lat) * Cos(dec), TrigScale)
  IN  IF den = 0 \/ Abs(num) > Abs(den) THEN <<>>
      ELSE <<90000 - Asin(RoundDiv(num * TrigScale, den))>>

\* SunCalc.getTimes(date, lat, lng): solarNoon, sunrise and sunset.  sunrise and
\* sunset are <<instant>>, or <<>> for the Invalid Date suncalc returns when the
\* hour angle is NaN.
SunCalc_getTimes(t, lat, lng) ==
  LET ds   == approxTransit(lng, julianCycle(t, lng))
      M    == solarMeanAnomaly(RoundDiv(ds, 250))
      L    == eclipticLongitude(M)
      noon == ds + transitCorrection(M, L)
      w    == hourAngle(lat, declination(L))
  IN  [ solarNoon |-> RoundDiv(noon, 250),
        sunrise   |-> IF w = <<>> THEN <<>> ELSE <<RoundDiv(noon - w[1], 250)>>,
        sunset    |-> IF w = <<>> THEN <<>> ELSE <<RoundDiv(noon + w[1], 250)>> ]

\* H = siderealTime(d, lw) - ra: the turn of the Earth since the solar transit
localHourAngle(t, lng) ==
  LET M == solarMeanAnomaly(t)
      L == eclipticLongitude(M)
  IN  Wrap180(250 * MinuteOf(t) + 180000 - 324 + lng - transitCorrection(M, L))

\* altitude(H, phi, dec) = asin(sin phi sin dec + cos phi cos dec cos H)
altitude(H, lat, dec) ==
  LET x == RoundDiv(Sin(lat) * Sin(dec), TrigScale)
           + RoundDiv(RoundDiv(Cos(lat) * Cos(dec), TrigScale) * Cos(H), TrigScale)
  IN  Asin(IF x > TrigScale THEN TrigScale ELSE IF x < 0 - TrigScale THEN 0 - TrigScale ELSE x)

\* SunCalc.getPosition(date, lat, lng).altitude * 180 / Math.PI, in millidegrees
SunCalc_getPosition_altitude(t, lat, lng) ==
  altitude(localHourAngle(t, lng), lat, DeclinationAt(t))

(***************************************************************************)
(* Program constants                                                       *)
(***************************************************************************)
\* `altitudeDegrees >= 45`: the Vitamin-D threshold, in degrees
ThresholdDeg == 45
Threshold == ThresholdDeg * 1000

\* `for (let i = 0; i < 366; i++)`: the search horizon, in days
HorizonDays == 366

\* `for (let i = 0; i < 24 * 60; i++)`: the minutes of a UTC day
MinutesPerDay == 24 * 60

\* The calendar of Date.UTC: instants are minutes since 00:00 UTC of 1 January
\* of the epoch year
EpochYear == 2024

isLeapYear(year) == year % 4 = 0 /\ (year % 100 # 0 \/ year % 400 = 0)

\* days of month m (0 = January) of a year
daysInMonth(year, m) ==
  IF m = 1 THEN (IF isLeapYear(year) THEN 29 ELSE 28)
  ELSE IF m \in {3, 5, 8, 10} THEN 30 ELSE 31

RECURSIVE daysBeforeMonth(_, _)
daysBeforeMonth(year, m) ==
  IF m = 0 THEN 0 ELSE daysBeforeMonth(year, m - 1) + daysInMonth(year, m - 1)

RECURSIVE daysBeforeYear(_)
daysBeforeYear(year) ==
  IF year = EpochYear THEN 0
  ELSE IF year > EpochYear
       THEN daysBeforeYear(year - 1) + (IF isLeapYear(year - 1) THEN 366 ELSE 365)
       ELSE daysBeforeYear(year + 1) - (IF isLeapYear(year) THEN 366 ELSE 365)

\* Date.UTC(year, m, day, hours, minutes)
DateUTC(year, m, day, hours, minutes) ==
  ((daysBeforeYear(year) + daysBeforeMonth(year, m) + day - 1) * 24 + hours) * 60 + minutes

\* null, and a non-null value v
null == <<>>
Some(v) == <<v>>

(***************************************************************************)
(* Inputs                                                                  *)
(***************************************************************************)
\* the start dates are 00:00 UTC of MaxConsecutive + 1 consecutive days at each
\* of MaxStrides + 1 dates DayStride days apart, and other times of the first day
MaxStrides == 4
MaxConsecutive == 1
DayStride == 73
TimesOfDay == {0, 13 * 60 + 7, MinutesPerDay - 1}

StartDates ==
  { (DayStride * k + j) * MinutesPerDay : k \in 0..MaxStrides, j \in 0..MaxConsecutive }
    \cup TimesOfDay

\* Seattle, Tromso, the equator at Greenwich and at the date line, San Diego,
\* the north pole, Wellington, and a place north of Oslo where the noon sun is
\* last above the threshold on 6 August 2024
Locations ==
  { <<47606, 0 - 122332>>, <<69649, 18955>>, <<0, 0>>, <<0, 180000>>,
    <<32736, 0 - 117161>>, <<90000, 0>>, <<0 - 41289, 174777>>, <<61200, 10750>> }

\* the places of getSunStats: those above, and the north pole by longitude 15 W
StatsLocations == Locations \cup { <<90000, 0 - 15000>>, <<0 - 90000, 0>>, <<0 - 77850, 166667>> }

\* the instants of getSunStats and of the two GeoJSON functions: 12:00 UTC of
\* the first day of each stride of the start dates, the days of the test suite (20
\* March, 20 June, 21 December 2024), and 20 March 2024 12:57, when the
\* declination is 0 and the sun is over longitude 12 W
Instants ==
  { (DayStride * k) * MinutesPerDay + 12 * 60 : k \in 0..MaxStrides }
    \cup { 79 * MinutesPerDay + 12 * 60, 171 * MinutesPerDay + 12 * 60,
           355 * MinutesPerDay + 12 * 60, 79 * MinutesPerDay + 12 * 60 + 57 }

(***************************************************************************)
(* State                                                                   *)
(***************************************************************************)
VARIABLES
  pc,                  \* position: "idle", "dayScan", "minuteScan", "recessionScan", "done"
  op,                  \* the function being executed, "none" when idle
  latitude, longitude, startDate,        \* arguments of the call
  today,               \* getVitaminDInfo: startDate normalised to 00:00 UTC
  i,                   \* the loop variable of the loop being executed
  vitaminDDate, daysUntilVitaminD,
  startTimeAbove45, endTimeAbove45, durationAbove45, daysUntilBelow45,
  previous,            \* what getVitaminDInfo returned for the same place from the
                       \* preceding UTC day, when the caller called again; else null
  result,              \* what getSunStats, getTerminatorGeoJSON or
                       \* getVitaminDAreaGeoJSON returned; else null
  now,                 \* the year the wall clock shows (new Date().getFullYear())
  app                  \* the App component: its state, its map ref and its browser

vars ==
  << pc, op, latitude, longitude, startDate, today, i, vitaminDDate, daysUntilVitaminD,
     startTimeAbove45, endTimeAbove45, durationAbove45, daysUntilBelow45, previous, result,
     now, app >>

\* the variables of the engine
engine ==
  << pc, op, latitude, longitude, startDate, today, i, vitaminDDate, daysUntilVitaminD,
     startTimeAbove45, endTimeAbove45, durationAbove45, daysUntilBelow45, previous, result,
     now >>

locals ==
  << vitaminDDate, daysUntilVitaminD, startTimeAbove45, endTimeAbove45, durationAbove45,
     daysUntilBelow45 >>

args == << op, latitude, longitude, startDate, today, previous, result, now, app >>

(***************************************************************************)
(* getVitaminDInfo                                                         *)
(***************************************************************************)
\* addDays(date, days): setUTCDate(getUTCDate() + days) on a copy
addDays(date, days) == date + days * MinutesPerDay

\* a copy that keeps the time of day
startOfUTCDay_KeepsTime(date) == date

\* setUTCHours(0, 0, 0, 0) on a copy
startOfUTCDay(date) == date - MinuteOf(date)

\* the altitude at `date` itself, 00:00 UTC, in place of the one at solar noon
noonAltitude_AtDate(date, lat, lng) == SunCalc_getPosition_altitude(date, lat, lng)

\* the altitude, at the solar noon SunCalc.getTimes gives for `date`, that the
\* day scan and the recession scan compare with the threshold
noonAltitude(date, lat, lng) ==
  SunCalc_getPosition_altitude(SunCalc_getTimes(date, lat, lng).solarNoon, lat, lng)

\* a comparison that leaves out the threshold itself
reachesThreshold_Strict(alt) == alt > Threshold

\* `altitudeDegrees >= 45`
reachesThreshold(alt) == alt >= Threshold

\* `highestFutureAngle < 45`
belowThreshold(alt) == alt < Threshold

\* the '<h>h <m>m' string of a number of minutes
formatDuration(diffMinutes) == [h |-> diffMinutes \div 60, m |-> diffMinutes % 60]

\* the object getVitaminDInfo returns
returnValue ==
  [ vitaminDDate |-> vitaminDDate, daysUntilVitaminD |-> daysUntilVitaminD,
    startTimeAbove45 |-> startTimeAbove45, endTimeAbove45 |-> endTimeAbove45,
    durationAbove45 |-> durationAbove45, daysUntilBelow45 |-> daysUntilBelow45 ]

\* entry of getVitaminDInfo(latitude, longitude, startDate): lines 75-79
enterGetVitaminDInfo(lat, lng, date) ==
  /\ op' = "getVitaminDInfo"
  /\ latitude' = lat /\ longitude' = lng /\ startDate' = date
  /\ today' = startOfUTCDay(date)
  /\ vitaminDDate' = null
  /\ daysUntilVitaminD' = 0
  /\ startTimeAbove45' = null /\ endTimeAbove45' = null
  /\ durationAbove45' = null /\ daysUntilBelow45' = null
  /\ i' = 0
  /\ pc' = "dayScan"
  /\ result' = null
  /\ UNCHANGED <<now, app>>

CallGetVitaminDInfo(lat, lng, date) ==
  /\ pc = "idle"
  /\ enterGetVitaminDInfo(lat, lng, date)
  /\ previous' = null

\* the caller keeps the returned object and calls again for the same place
\* with the following UTC day as start date
CallGetVitaminDInfoNextDay ==
  /\ pc = "done" /\ op = "getVitaminDInfo"
  /\ addDays(today, 1) \in StartDates
  /\ enterGetVitaminDInfo(latitude, longitude, addDays(today, 1))
  /\ previous' = Some([ret |-> returnValue])

\* a day scan without the `break`: it keeps the last qualifying day of the horizon
DayScanStep_NoBreak ==
  /\ pc = "dayScan"
  /\ i < HorizonDays
  /\ LET currentDate == addDays(today, i)
         altitudeDegrees == noonAltitude(currentDate, latitude, longitude)
         found == IF reachesThreshold(altitudeDegrees) THEN Some(currentDate) ELSE vitaminDDate
     IN  /\ vitaminDDate' = found
         /\ daysUntilVitaminD' = IF reachesThreshold(altitudeDegrees) THEN i ELSE daysUntilVitaminD
         /\ IF i + 1 < HorizonDays
            THEN i' = i + 1 /\ pc' = "dayScan"
            ELSE IF found # null
                 THEN i' = 0 /\ pc' = "minuteScan"
                 ELSE i' = i + 1 /\ pc' = "done"
  /\ UNCHANGED <<args, startTimeAbove45, endTimeAbove45, durationAbove45, daysUntilBelow45>>

\* a day scan that counts the days it has looked at in daysUntilVitaminD
DayScanStep_CountsEveryDay ==
  /\ pc = "dayScan"
  /\ i < HorizonDays
  /\ LET currentDate == addDays(today, i)
         altitudeDegrees == noonAltitude(currentDate, latitude, longitude)
     IN  IF reachesThreshold(altitudeDegrees)
         THEN /\ vitaminDDate' = Some(currentDate)
              /\ daysUntilVitaminD' = i
              /\ i' = 0
              /\ pc' = "minuteScan"
         ELSE /\ UNCHANGED vitaminDDate
              /\ daysUntilVitaminD' = i + 1
              /\ i' = i + 1
              /\ pc' = IF i + 1 < HorizonDays THEN "dayScan" ELSE "done"
  /\ UNCHANGED <<args, startTimeAbove45, endTimeAbove45, durationAbove45, daysUntilBelow45>>

\* a day scan that reports the day of the year in place of the offset i
DayScanStep_DayOfYear ==
  /\ pc = "dayScan"
  /\ i < HorizonDays
  /\ LET currentDate == addDays(today, i)
         altitudeDegrees == noonAltitude(currentDate, latitude, longitude)
     IN  IF reachesThreshold(altitudeDegrees)
         THEN /\ vitaminDDate' = Some(currentDate)
              /\ daysUntilVitaminD' = DayOf(currentDate) % HorizonDays
              /\ i' = 0
              /\ pc' = "minuteScan"
         ELSE /\ UNCHANGED <<vitaminDDate, daysUntilVitaminD>>
              /\ i' = i + 1
              /\ pc' = IF i + 1 < HorizonDays THEN "dayScan" ELSE "done"
  /\ UNCHANGED <<args, startTimeAbove45, endTimeAbove45, durationAbove45, daysUntilBelow45>>

\* one iteration of `for (let i = 0; i < 366; i++)`, with the loop's exit
DayScanStep ==
  /\ pc = "dayScan"
  /\ i < HorizonDays
  /\ LET currentDate == addDays(today, i)
         altitudeDegrees == noonAltitude(currentDate, latitude, longitude)
     IN  IF reachesThreshold(altitudeDegrees)
         THEN /\ vitaminDDate' = Some(currentDate)
              /\ daysUntilVitaminD' = i
              /\ i' = 0
              /\ pc' = "minuteScan"
         ELSE /\ UNCHANGED <<vitaminDDate, daysUntilVitaminD>>
              /\ i' = i + 1
              /\ pc' = IF i + 1 < HorizonDays THEN "dayScan" ELSE "done"
  /\ UNCHANGED <<args, startTimeAbove45, endTimeAbove45, durationAbove45, daysUntilBelow45>>

\* a minute scan followed by the recession scan whatever daysUntilVitaminD is
MinuteScanStep_AlwaysRecession ==
  /\ pc = "minuteScan"
  /\ i < MinutesPerDay
  /\ LET startOfDay  == startOfUTCDay(vitaminDDate[1])
         currentTime == startOfDay + i
         alt         == SunCalc_getPosition_altitude(currentTime, latitude, longitude)
         start       == IF reachesThreshold(alt) /\ startTimeAbove45 = null
                        THEN Some(currentTime) ELSE startTimeAbove45
         end         == IF reachesThreshold(alt) THEN Some(currentTime) ELSE endTimeAbove45
     IN  /\ startTimeAbove45' = start
         /\ endTimeAbove45' = end
         /\ IF i + 1 < MinutesPerDay
            THEN /\ i' = i + 1
                 /\ pc' = "minuteScan"
                 /\ UNCHANGED durationAbove45
            ELSE /\ durationAbove45' =
                      IF start # null /\ end # null
                      THEN Some(formatDuration(end[1] - start[1])) ELSE null
                 /\ i' = 1
                 /\ pc' = "recessionScan"
  /\ UNCHANGED <<args, vitaminDDate, daysUntilVitaminD, daysUntilBelow45>>

\* a minute scan without the `!startTimeAbove45` test: the start time follows
\* every qualifying minute
MinuteScanStep_StartOverwritten ==
  /\ pc = "minuteScan"
  /\ i < MinutesPerDay
  /\ LET startOfDay  == startOfUTCDay(vitaminDDate[1])
         currentTime == startOfDay + i
         alt         == SunCalc_getPosition_altitude(currentTime, latitude, longitude)
         start       == IF reachesThreshold(alt) THEN Some(currentTime) ELSE startTimeAbove45
         end         == IF reachesThreshold(alt) THEN Some(currentTime) ELSE endTimeAbove45
     IN  /\ startTimeAbove45' = start
         /\ endTimeAbove45' = end
         /\ IF i + 1 < MinutesPerDay
            THEN /\ i' = i + 1
                 /\ pc' = "minuteScan"
                 /\ UNCHANGED durationAbove45
            ELSE /\ durationAbove45' =
                      IF start # null /\ end # null
                      THEN Some(formatDuration(end[1] - start[1])) ELSE null
                 /\ i' = 1
                 /\ pc' = IF daysUntilVitaminD = 0 THEN "recessionScan" ELSE "done"
  /\ UNCHANGED <<args, vitaminDDate, daysUntilVitaminD, daysUntilBelow45>>

\* one iteration of `for (let i = 0; i < 24 * 60; i++)`; after the last one, the
\* duration, and the choice between the recession scan and the return
MinuteScanStep ==
  /\ pc = "minuteScan"
  /\ i < MinutesPerDay
  /\ LET startOfDay  == startOfUTCDay(vitaminDDate[1])
         currentTime == startOfDay + i
         alt         == SunCalc_getPosition_altitude(currentTime, latitude, longitude)
         start       == IF reachesThreshold(alt) /\ startTimeAbove45 = null
                        THEN Some(currentTime) ELSE startTimeAbove45
         end         == IF reachesThreshold(alt) THEN Some(currentTime) ELSE endTimeAbove45
     IN  /\ startTimeAbove45' = start
         /\ endTimeAbove45' = end
         /\ IF i + 1 < MinutesPerDay
            THEN /\ i' = i + 1
                 /\ pc' = "minuteScan"
                 /\ UNCHANGED durationAbove45
            ELSE /\ durationAbove45' =
                      IF start # null /\ end # null
                      THEN Some(formatDuration(end[1] - start[1])) ELSE null
                 /\ i' = 1
                 /\ pc' = IF daysUntilVitaminD = 0 THEN "recessionScan" ELSE "done"
  /\ UNCHANGED <<args, vitaminDDate, daysUntilVitaminD, daysUntilBelow45>>

\* a recession scan that looks at the day before the one it counts
RecessionScanStep_OffByOne ==
  /\ pc = "recessionScan"
  /\ i < HorizonDays
  /\ LET futureDate == addDays(today, i - 1)
         highestFutureAngle == noonAltitude(futureDate, latitude, longitude)
     IN  IF belowThreshold(highestFutureAngle)
         THEN /\ daysUntilBelow45' = Some(i)
              /\ i' = i
              /\ pc' = "done"
         ELSE /\ UNCHANGED daysUntilBelow45
              /\ i' = i + 1
              /\ pc' = IF i + 1 < HorizonDays THEN "recessionScan" ELSE "done"
  /\ UNCHANGED <<args, vitaminDDate, daysUntilVitaminD, startTimeAbove45, endTimeAbove45,
                 durationAbove45>>

\* one iteration of `for (let i = 1; i < 366; i++)`, with the loop's exit
RecessionScanStep ==
  /\ pc = "recessionScan"
  /\ i < HorizonDays
  /\ LET futureDate == addDays(today, i)
         highestFutureAngle == noonAltitude(futureDate, latitude, longitude)
     IN  IF belowThreshold(highestFutureAngle)
         THEN /\ daysUntilBelow45' = Some(i)
              /\ i' = i
              /\ pc' = "done"
         ELSE /\ UNCHANGED daysUntilBelow45
              /\ i' = i + 1
              /\ pc' = IF i + 1 < HorizonDays THEN "recessionScan" ELSE "done"
  /\ UNCHANGED <<args, vitaminDDate, daysUntilVitaminD, startTimeAbove45, endTimeAbove45,
                 durationAbove45>>

(***************************************************************************)
(* getSunStats                                                             *)
(***************************************************************************)
\* formatTime(date): 'N/A' for a missing date, else the hour and minute
formatTime(date) ==
  IF date = null THEN [na |-> TRUE]
  ELSE [h |-> MinuteOf(date[1]) \div 60, m |-> MinuteOf(date[1]) % 60]

\* Number.prototype.toFixed(2) of a non-negative angle: the string of its
\* hundredths of a degree, rounded
toFixed2(x) == RoundDiv(x, 10)

\* parseFloat of a toFixed(2) string, as hundredths
parseFloat(str) == str

\* calculateDayLength(times, highestSunAngle); highestSunAngle is the formatted
\* string
calculateDayLength(times, highestSunAngle) ==
  IF /\ times.sunrise # <<>> /\ times.sunset # <<>>
     /\ times.sunset[1] > times.sunrise[1]
  THEN LET diff == times.sunset[1] - times.sunrise[1]
       IN  [h |-> diff \div 60, m |-> diff % 60]
  ELSE IF parseFloat(highestSunAngle) > 0
       THEN [h |-> 24, m |-> 0]
       ELSE [h |-> 0, m |-> 0]

\* getSunStats without the Math.max(0, ...) of line 48
getSunStats_Unclamped(lat, lng, date) ==
  LET times == SunCalc_getTimes(date, lat, lng)
      solarNoon == times.solarNoon
      altitudeDegrees == SunCalc_getPosition_altitude(solarNoon, lat, lng)
      formattedHighestSunAngle == toFixed2(altitudeDegrees)
  IN  [ highestSunAngle |-> formattedHighestSunAngle,
        solarNoonTime   |-> formatTime(Some(solarNoon)),
        dayLength       |-> calculateDayLength(times, formattedHighestSunAngle) ]

getSunStats(lat, lng, date) ==
  LET times == SunCalc_getTimes(date, lat, lng)
      solarNoon == times.solarNoon
      altitudeDegrees == SunCalc_getPosition_altitude(solarNoon, lat, lng)
      highestSunAngle == IF altitudeDegrees > 0 THEN altitudeDegrees ELSE 0
      formattedHighestSunAngle == toFixed2(highestSunAngle)
  IN  [ highestSunAngle |-> formattedHighestSunAngle,
        solarNoonTime   |-> formatTime(Some(solarNoon)),
        dayLength       |-> calculateDayLength(times, formattedHighestSunAngle) ]

(***************************************************************************)
(* getSubsolarPoint, getTerminatorGeoJSON, getVitaminDAreaGeoJSON          *)
(***************************************************************************)
\* `const resolution = 2; // degrees`
resolution == 2

\* a finite double, and the double NaN
Num(v) == [num |-> v]
NaN == [nan |-> TRUE]
IsFinite(x) == "num" \in DOMAIN x

\* the fallback with the sign of the main branch reversed
subsolarPointGiven_WestPositive(date, solarNoonAtZero) ==
  LET decDeg == SunCalc_getPosition_altitude(date, 90000, 0)
  IN  IF solarNoonAtZero = null
      THEN [lat |-> decDeg, lng |-> (12 * 60 - MinuteOf(date)) * 250]
      ELSE [lat |-> decDeg, lng |-> (date - solarNoonAtZero[1]) * 250]

\* the body of getSubsolarPoint for a given value of timesAtZero.solarNoon
\* (null for a falsy one): `if (!solarNoonAtZero)` returns (12 - utcHours) * 15,
\* otherwise (solarNoonTime - utcTime) / 3600000 * 15, i.e. 0.25 degree a minute
subsolarPointGiven(date, solarNoonAtZero) ==
  LET decDeg == SunCalc_getPosition_altitude(date, 90000, 0)
  IN  IF solarNoonAtZero = null
      THEN [lat |-> decDeg, lng |-> (12 * 60 - MinuteOf(date)) * 250]
      ELSE [lat |-> decDeg, lng |-> (solarNoonAtZero[1] - date) * 250]

\* the subsolar point with the sign of the declination reversed
getSubsolarPoint_Mirrored(date) ==
  LET decDeg == SunCalc_getPosition_altitude(date, 90000, 0)
      solarNoonAtZero == SunCalc_getTimes(date, 0, 0).solarNoon
  IN  [lat |-> 0 - decDeg, lng |-> (solarNoonAtZero - date) * 250]

\* getSubsolarPoint(date): lat is the sun's altitude at the north pole, lng is 15
\* degrees for every hour from `date` to the solar noon of (0, 0)
getSubsolarPoint(date) ==
  subsolarPointGiven(date, Some(SunCalc_getTimes(date, 0, 0).solarNoon))

\* a sweep in steps of 7 degrees, which passes from 177 to 184
sweepLongitudes_Step7 ==
  [ k \in 1..((180 - (0 - 180)) \div 7 + 1) |-> ((0 - 180) + (k - 1) * 7) * 1000 ]

\* the values of lng in `for (let lng = -180; lng <= 180; lng += resolution)`
sweepLongitudes ==
  [ k \in 1..((180 - (0 - 180)) \div resolution + 1) |->
      ((0 - 180) + (k - 1) * resolution) * 1000 ]

\* Math.atan(n / d) for d # 0
atanRatio(n, d) ==
  LET a == RoundDiv(n, 2)
      b == RoundDiv(d, 2)
      hyp == Isqrt(a * a + b * b, 0, 30000)
  IN  Sign(b) * Asin(RoundDiv(a * TrigScale, hyp))

\* a cosine that is exact: 0 at 90 and at 270 degrees
mathCosIsZero_Exact(h) == Cos(h) = 0

\* Math.cos(h) = 0.  Math.cos returns no exact zero: no double is an odd multiple
\* of pi/2, and Math.cos(Math.PI / 2) is 6.1e-17.
mathCosIsZero(h) == FALSE

\* the sign of Math.cos(h), which at 90 degrees is that of 6.1e-17
mathCosSign(h) == IF Cos(h) >= 0 THEN 1 ELSE 0 - 1

\* Math.atan(-Math.cos(h) / Math.tan(dec)) * 180 / Math.PI.  With Math.tan(dec) = 0
\* the quotient is -Infinity or +Infinity (NaN if the dividend were 0 too), and
\* Math.atan of an infinity is -pi/2 or pi/2.
terminatorLatitude(h, dec) ==
  IF Sin(dec) = 0
  THEN IF mathCosIsZero(h) THEN NaN ELSE Num((0 - mathCosSign(h)) * 90000)
  ELSE Num(atanRatio(0 - RoundDiv(Cos(h) * Cos(dec), TrigScale), Sin(dec)))

\* a night polygon closed over the south pole whatever the declination
getTerminatorGeoJSON_SouthPole(date) ==
  LET sun    == getSubsolarPoint(date)
      decDeg == sun.lat
      sunLng == sun.lng
      points == [ k \in DOMAIN sweepLongitudes |->
                    <<sweepLongitudes[k], terminatorLatitude(sweepLongitudes[k] - sunLng, decDeg)>> ]
      nightPoints ==
        points \o << <<180000, Num(0 - 90000)>>, <<0 - 180000, Num(0 - 90000)>> >>
               \o << points[1] >>
  IN  [ type |-> "FeatureCollection",
        features |->
          << [ type |-> "Feature",
               properties |-> [name |-> "Night Fill", layerType |-> "fill"],
               geometry |-> [type |-> "Polygon", coordinates |-> <<nightPoints>>] ],
             [ type |-> "Feature",
               properties |-> [name |-> "Terminator Line", layerType |-> "boundary"],
               geometry |-> [type |-> "LineString", coordinates |-> points] ] >> ]

getTerminatorGeoJSON(date) ==
  LET sun    == getSubsolarPoint(date)
      decDeg == sun.lat
      sunLng == sun.lng
      swept  == [ k \in DOMAIN sweepLongitudes |->
                    <<sweepLongitudes[k], terminatorLatitude(sweepLongitudes[k] - sunLng, decDeg)>> ]
      points == IF swept[Len(swept)][1] # 180000
                THEN Append(swept, <<180000, terminatorLatitude(180000 - sunLng, decDeg)>>)
                ELSE swept
      nightPoints ==
        points
          \o (IF decDeg > 0
              THEN << <<180000, Num(0 - 90000)>>, <<0 - 180000, Num(0 - 90000)>> >>
              ELSE << <<180000, Num(90000)>>, <<0 - 180000, Num(90000)>> >>)
          \o << points[1] >>
  IN  [ type |-> "FeatureCollection",
        features |->
          << [ type |-> "Feature",
               properties |-> [name |-> "Night Fill", layerType |-> "fill"],
               geometry |-> [type |-> "Polygon", coordinates |-> <<nightPoints>>] ],
             [ type |-> "Feature",
               properties |-> [name |-> "Terminator Line", layerType |-> "boundary"],
               geometry |-> [type |-> "LineString", coordinates |-> points] ] >> ]

Max(a, b) == IF a >= b THEN a ELSE b
Min(a, b) == IF a <= b THEN a ELSE b

\* the declination at 00:00 UTC, the same for every longitude
noonDeclination_AtStartOfDay(startOfDay, lng) == getSubsolarPoint(startOfDay).lat

\* the declination at the local solar noon of longitude lng on the day of startOfDay
noonDeclination(startOfDay, lng) ==
  getSubsolarPoint(SunCalc_getTimes(startOfDay, 0, lng).solarNoon).lat

\* the band as one Feature: a Polygon between declination - 45 and declination + 45
\* sampled every 10 degrees, without layerType
getVitaminDAreaGeoJSON_Feature(date) ==
  LET decDeg == getSubsolarPoint(date).lat
      minLat == Max(0 - 90000, decDeg - Threshold)
      maxLat == Min(90000, decDeg + Threshold)
      bottom == [ k \in 1..37 |-> <<((0 - 180) + (k - 1) * 10) * 1000, minLat>> ]
      top    == [ k \in 1..37 |-> <<(180 - (k - 1) * 10) * 1000, maxLat>> ]
  IN  [ type |-> "Feature",
        properties |-> [name |-> "Vitamin D Area"],
        geometry |-> [type |-> "Polygon",
                      coordinates |-> << bottom \o top \o << bottom[1] >> >>] ]

\* a fill ring whose north edge runs west to east like the south edge
getVitaminDAreaGeoJSON_Unreversed(date) ==
  LET startOfDay == startOfUTCDay(date)
      sweptBottom == [ k \in DOMAIN sweepLongitudes |->
                         <<sweepLongitudes[k],
                           Max(0 - 90000, noonDeclination(startOfDay, sweepLongitudes[k]) - Threshold)>> ]
      sweptTop    == [ k \in DOMAIN sweepLongitudes |->
                         <<sweepLongitudes[k],
                           Min(90000, noonDeclination(startOfDay, sweepLongitudes[k]) + Threshold)>> ]
      missed180   == sweptBottom[Len(sweptBottom)][1] # 180000
      bottomPoints == IF missed180
                      THEN Append(sweptBottom, <<180000, noonDeclination(startOfDay, 180000) - Threshold>>)
                      ELSE sweptBottom
      topPoints    == IF missed180
                      THEN Append(sweptTop, <<180000, noonDeclination(startOfDay, 180000) + Threshold>>)
                      ELSE sweptTop
      polygonCoordinates == << bottomPoints \o topPoints \o << bottomPoints[1] >> >>
  IN  [ type |-> "FeatureCollection",
        features |->
          << [ type |-> "Feature",
               properties |-> [name |-> "Vitamin D Area Fill", layerType |-> "fill"],
               geometry |-> [type |-> "Polygon", coordinates |-> polygonCoordinates] ],
             [ type |-> "Feature",
               properties |-> [name |-> "Vitamin D Area Boundary", layerType |-> "boundary"],
               geometry |-> [type |-> "MultiLineString",
                             coordinates |-> <<bottomPoints, topPoints>>] ] >> ]

getVitaminDAreaGeoJSON(date) ==
  LET startOfDay == startOfUTCDay(date)
      sweptBottom == [ k \in DOMAIN sweepLongitudes |->
                         <<sweepLongitudes[k],
                           Max(0 - 90000, noonDeclination(startOfDay, sweepLongitudes[k]) - Threshold)>> ]
      sweptTop    == [ k \in DOMAIN sweepLongitudes |->
                         <<sweepLongitudes[k],
                           Min(90000, noonDeclination(startOfDay, sweepLongitudes[k]) + Threshold)>> ]
      missed180   == sweptBottom[Len(sweptBottom)][1] # 180000
      bottomPoints == IF missed180
                      THEN Append(sweptBottom, <<180000, noonDeclination(startOfDay, 180000) - Threshold>>)
                      ELSE sweptBottom
      topPoints    == IF missed180
                      THEN Append(sweptTop, <<180000, noonDeclination(startOfDay, 180000) + Threshold>>)
                      ELSE sweptTop
      count        == Len(topPoints)
      reversedTop  == [ k \in 1..count |-> topPoints[count + 1 - k] ]
      polygonCoordinates == << bottomPoints \o reversedTop \o << bottomPoints[1] >> >>
  IN  [ type |-> "FeatureCollection",
        features |->
          << [ type |-> "Feature",
               properties |-> [name |-> "Vitamin D Area Fill", layerType |-> "fill"],
               geometry |-> [type |-> "Polygon", coordinates |-> polygonCoordinates] ],
             [ type |-> "Feature",
               properties |-> [name |-> "Vitamin D Area Boundary", layerType |-> "boundary"],
               geometry |-> [type |-> "MultiLineString",
                             coordinates |-> <<bottomPoints, topPoints>>] ] >> ]

\* getNorthernVitaminDLat(date, lng): the northern edge of the band at one
\* longitude.  Its code is not among the sources; it is rendered from the
\* specification's Contract C: the declination at the local solar noon of the
\* longitude on the UTC day of `date`, plus 90 - 45 degrees, at most 90.
getNorthernVitaminDLat(date, lng) ==
  Min(90000, DeclinationAt(SunCalc_getTimes(startOfUTCDay(date), 0, lng).solarNoon)
               + Threshold)

(***************************************************************************)
(* getYearlySunData                                                        *)
(***************************************************************************)
monthNames ==
  << "Jan", "Feb", "Mar", "Apr", "May", "Jun", "Jul", "Aug", "Sep", "Oct", "Nov", "Dec" >>

\* the entry of month m (0 = January) of the year: the altitude at the solar
\* noon SunCalc.getTimes gives for 12:00 UTC of the given day of the month
yearlyEntry(lat, lng, year, m, day) ==
  LET date == DateUTC(year, m, day, 12, 0)
      solarNoon == SunCalc_getTimes(date, lat, lng).solarNoon
  IN  [ month |-> monthNames[m + 1],
        angle |-> Max(0, SunCalc_getPosition_altitude(solarNoon, lat, lng)) ]

\* the loop of getYearlySunData for the year read from the clock
yearlySeries(lat, lng, year) ==
  [ k \in 1..12 |-> yearlyEntry(lat, lng, year, k - 1, 15) ]

\* a series sampled on the first day of each month
getYearlySunData_FirstOfMonth(lat, lng) ==
  [ k \in 1..12 |-> yearlyEntry(lat, lng, now, k - 1, 1) ]

\* getYearlySunData(latitude, longitude): the year is read from the clock
getYearlySunData(lat, lng) == yearlySeries(lat, lng, now)

(***************************************************************************)
(* getVitaminDBandsGeoJSON.  Its code is not among the sources; it is      *)
(* rendered from the specification's Trend Classifier: for k = 0 to        *)
(* monthsAhead, the two edges of the band of getVitaminDAreaGeoJSON for    *)
(* baseDate plus k calendar months, each edge a LineString labelled with   *)
(* the month, the side and isReceding.                                     *)
(***************************************************************************)
monthsAhead == 4

RECURSIVE yearOfDay(_, _)
yearOfDay(day, year) ==
  IF day < daysBeforeYear(year) THEN yearOfDay(day, year - 1)
  ELSE IF day >= daysBeforeYear(year + 1) THEN yearOfDay(day, year + 1)
  ELSE year

RECURSIVE monthOfDay(_, _, _)
monthOfDay(dayOfYear, year, m) ==
  IF dayOfYear < daysBeforeMonth(year, m + 1) THEN m ELSE monthOfDay(dayOfYear, year, m + 1)

getUTCFullYear(date) == yearOfDay(DayOf(date), EpochYear)

getUTCMonth(date) ==
  LET year == getUTCFullYear(date)
  IN  monthOfDay(DayOf(date) - daysBeforeYear(year), year, 0)

getUTCDate(date) ==
  LET year == getUTCFullYear(date)
  IN  DayOf(date) - daysBeforeYear(year) - daysBeforeMonth(year, getUTCMonth(date)) + 1

\* date plus k calendar months on the same day of the month, or on the last
\* day of the target month when that month is shorter
plusMonths(date, k) ==
  LET months == getUTCFullYear(date) * 12 + getUTCMonth(date) + k
      year == months \div 12
      m == months % 12
      day == Min(getUTCDate(date), daysInMonth(year, m))
  IN  DateUTC(year, m, day, MinuteOf(date) \div 60, MinuteOf(date) % 60)

\* the two features of step k: the north and the south edge for baseDate plus k
\* months.  An edge recedes when the declination has moved away from the
\* solstice that governs it since the previous step (for k = 0: since the
\* month before baseDate).
bandsFeatures(baseDate, k) ==
  LET date == plusMonths(baseDate, k)
      startOfDay == startOfUTCDay(date)
      decDeg == getSubsolarPoint(date).lat
      previousDec == getSubsolarPoint(plusMonths(baseDate, k - 1)).lat
      edge(side, lng) ==
        IF side = "north" THEN Min(90000, noonDeclination(startOfDay, lng) + Threshold)
        ELSE Max(0 - 90000, noonDeclination(startOfDay, lng) - Threshold)
      feature(side) ==
        [ type |-> "Feature",
          properties |-> [ monthName |-> monthNames[getUTCMonth(date) + 1],
                           side |-> side,
                           isReceding |-> IF side = "north" THEN decDeg < previousDec
                                          ELSE decDeg > previousDec ],
          geometry |-> [ type |-> "LineString",
                         coordinates |-> [ j \in DOMAIN sweepLongitudes |->
                                             <<sweepLongitudes[j],
                                               edge(side, sweepLongitudes[j])>> ] ] ]
  IN  << feature("north"), feature("south") >>

CallGetVitaminDBandsGeoJSON(baseDate) ==
  /\ pc = "idle"
  /\ op' = "getVitaminDBandsGeoJSON"
  /\ latitude' = 0 /\ longitude' = 0 /\ startDate' = baseDate
  /\ i' = 0
  /\ result' = Some(<< >>)
  /\ pc' = "bandsScan"
  /\ previous' = null
  /\ UNCHANGED <<today, locals, now, app>>

\* one step of the loop over k, and the return of the FeatureCollection after
\* the last
BandsScanStep ==
  /\ pc = "bandsScan"
  /\ IF i <= monthsAhead
     THEN /\ result' = Some(result[1] \o bandsFeatures(startDate, i))
          /\ i' = i + 1
          /\ pc' = "bandsScan"
     ELSE /\ result' = Some([type |-> "FeatureCollection", features |-> result[1]])
          /\ pc' = "done"
          /\ UNCHANGED i
  /\ UNCHANGED <<op, latitude, longitude, startDate, today, previous, locals, now, app>>

\* a call of a function without a scanning loop, from entry to return
CallAndReturn(name, lat, lng, date, value) ==
  /\ pc = "idle"
  /\ op' = name
  /\ latitude' = lat /\ longitude' = lng /\ startDate' = date
  /\ result' = Some(value)
  /\ pc' = "done"
  /\ previous' = null
  /\ UNCHANGED <<today, i, locals, now, app>>

GetSunStats(lat, lng, date) ==
  CallAndReturn("getSunStats", lat, lng, date, getSunStats(lat, lng, date))

GetTerminatorGeoJSON(date) ==
  CallAndReturn("getTerminatorGeoJSON", 0, 0, date, getTerminatorGeoJSON(date))

GetVitaminDAreaGeoJSON(date) ==
  CallAndReturn("getVitaminDAreaGeoJSON", 0, 0, date, getVitaminDAreaGeoJSON(date))

GetYearlySunData(lat, lng) ==
  CallAndReturn("getYearlySunData", lat, lng, 0, getYearlySunData(lat, lng))

(***************************************************************************)
(* App: the WebGL check and the effect that initializes the map            *)
(***************************************************************************)
\* the effect runs at most this many times in one life of the App
MaxEffectRuns == 4

\* the user selects at most this many locations in one life of the App
MaxSelections == 2

\* the places the user selects (Seattle, Wellington) and the `text` of the first
\* feature the geocoding service has for each
Places == { <<47606, 0 - 122332>>, <<0 - 41289, 174777>> }
placeText(place) == IF place[1] > 0 THEN "Seattle" ELSE "Wellington"

\* the App before it is rendered: cityName is useState(''), `clicked` is the place
\* whose coordinates and statistics are shown, `requests` are the calls of
\* fetchCityName whose response has not arrived
unmounted ==
  [ mounted |-> FALSE, supported |-> <<TRUE, TRUE>>, accessToken |-> TRUE,
    mapError |-> null, loading |-> TRUE, mapRef |-> FALSE, mapCalls |-> 0,
    effectPending |-> FALSE, runs |-> 0,
    cityName |-> "", clicked |-> null, requests |-> {}, selections |-> 0 ]

\* a mapError that is never set by the initializer
initialMapError_Unchecked(strict, lenient) == null

\* the initializer of the mapError state: mapboxgl.supported() and, when it
\* fails, mapboxgl.supported({ failIfMajorPerformanceCaveat: false })
initialMapError(strict, lenient) ==
  IF ~strict /\ ~lenient THEN Some("webgl-unavailable") ELSE null

\* the first render, in a browser where the two WebGL checks give `strict` and
\* `lenient` and the access token is or is not configured
Render(strict, lenient, token) ==
  /\ ~app.mounted
  /\ app' = [ unmounted EXCEPT !.mounted = TRUE,
                               !.supported = <<strict, lenient>>,
                               !.accessToken = token,
                               !.mapError = initialMapError(strict, lenient),
                               !.effectPending = TRUE ]
  /\ UNCHANGED engine

\* a run of the effect: the cleanup of the previous run, then the body; the
\* constructor of mapboxgl.Map returns or throws
InitEffect(throws) ==
  /\ app.mounted /\ app.effectPending
  /\ LET cleaned == [ app EXCEPT !.mapRef = FALSE ]
         ran ==
           IF ~cleaned.accessToken
           THEN [ cleaned EXCEPT !.mapError = Some("token-missing"), !.loading = FALSE ]
           ELSE IF cleaned.mapRef THEN cleaned
           ELSE IF cleaned.mapError # null THEN [ cleaned EXCEPT !.loading = FALSE ]
           ELSE IF throws
                THEN [ cleaned EXCEPT !.mapCalls = @ + 1, !.mapError = Some("init-failed") ]
                ELSE [ cleaned EXCEPT !.mapCalls = @ + 1, !.mapRef = TRUE ]
     IN  app' = [ ran EXCEPT !.runs = @ + 1,
                             !.effectPending = (ran.mapError # app.mapError) ]
  /\ UNCHANGED engine

\* a callback among the effect's dependencies gets a new identity: the effect
\* will run again
DepsChange ==
  /\ app.mounted /\ ~app.effectPending
  /\ app.runs < MaxEffectRuns
  /\ app' = [ app EXCEPT !.effectPending = TRUE ]
  /\ UNCHANGED engine

\* the map's 'load' event
MapLoaded ==
  /\ app.mounted /\ app.mapRef /\ app.loading
  /\ app' = [ app EXCEPT !.loading = FALSE ]
  /\ UNCHANGED engine

\* updateStatsForLocation(lng, lat): the coordinates and the statistics of the
\* place are set, and fetchCityName is called without being awaited
UpdateStatsForLocation(place) ==
  /\ app.mounted
  /\ app.selections < MaxSelections
  /\ app' = [ app EXCEPT !.clicked = Some(place),
                         !.selections = @ + 1,
                         !.requests = @ \cup { [id |-> app.selections + 1, place |-> place] } ]
  /\ UNCHANGED engine

\* what fetchCityName passes to setCityName: the text of the first feature, or
\* 'Unknown Location' for an empty answer or a failed request
fetchedCityName(place, outcome) ==
  IF outcome = "features" THEN placeText(place) ELSE "Unknown Location"

\* the rest of fetchCityName after `await fetch(url)`: the response of one of
\* the requests in flight arrives, with features, without, or as a failure
FetchCityNameResponse(request, outcome) ==
  /\ app.mounted
  /\ request \in app.requests
  /\ app' = [ app EXCEPT !.cityName = fetchedCityName(request.place, outcome),
                         !.requests = @ \ {request} ]
  /\ UNCHANGED engine

\* the App is unmounted: the cleanup removes the map; a response that arrives
\* later sets the state of a component that is gone
Unmount ==
  /\ app.mounted
  /\ app' = unmounted
  /\ UNCHANGED engine

\* the caller takes the returned object
Return ==
  /\ pc = "done"
  /\ pc' = "idle"
  /\ op' = "none"
  /\ previous' = null
  /\ latitude' = 0 /\ longitude' = 0 /\ startDate' = 0 /\ today' = 0 /\ i' = 0
  /\ vitaminDDate' = null /\ daysUntilVitaminD' = 0
  /\ startTimeAbove45' = null /\ endTimeAbove45' = null
  /\ durationAbove45' = null /\ daysUntilBelow45' = null
  /\ result' = null
  /\ UNCHANGED <<now, app>>

Init ==
  /\ pc = "idle" /\ op = "none"
  /\ latitude = 0 /\ longitude = 0 /\ startDate = 0 /\ today = 0 /\ i = 0
  /\ vitaminDDate = null /\ daysUntilVitaminD = 0
  /\ startTimeAbove45 = null /\ endTimeAbove45 = null
  /\ durationAbove45 = null /\ daysUntilBelow45 = null
  /\ previous = null
  /\ result = null
  /\ now = EpochYear
  /\ app = unmounted

Next ==
  \/ \E loc \in Locations, date \in StartDates : CallGetVitaminDInfo(loc[1], loc[2], date)
  \/ \E loc \in StatsLocations, date \in Instants : GetSunStats(loc[1], loc[2], date)
  \/ \E date \in Instants : GetTerminatorGeoJSON(date)
  \/ \E date \in Instants : GetVitaminDAreaGeoJSON(date)
  \/ CallGetVitaminDInfoNextDay
  \/ DayScanStep
  \/ MinuteScanStep
  \/ RecessionScanStep
  \/ Return

Spec == Init /\ [][Next]_vars

(***************************************************************************)
(* The App in browsers with and without WebGL                              *)
(***************************************************************************)
NextApp ==
  \/ \E strict \in BOOLEAN, lenient \in BOOLEAN, token \in BOOLEAN :
       Render(strict, lenient, token)
  \/ \E throws \in BOOLEAN : InitEffect(throws)
  \/ DepsChange
  \/ MapLoaded
  \/ \E place \in Places : UpdateStatsForLocation(place)
  \/ \E id \in 1..MaxSelections, place \in Places, outcome \in {"features", "empty", "failed"} :
       FetchCityNameResponse([id |-> id, place |-> place], outcome)
  \/ Unmount

SpecApp == Init /\ [][NextApp]_vars

(***************************************************************************)
(* Calls of getYearlySunData as the years pass                             *)
(***************************************************************************)
MaxYears == 2
LatitudeStride == 15

YearlyLocations ==
  { <<LatitudeStride * 1000 * k, lng>> :
      k \in (0 - 90 \div LatitudeStride)..(90 \div LatitudeStride),
      lng \in {0 - 180000, 0 - 122332, 0, 18955, 180000} }

\* the clock passes a new year between two calls
NewYear ==
  /\ pc = "idle"
  /\ now < EpochYear + MaxYears
  /\ now' = now + 1
  /\ UNCHANGED <<pc, i, locals, op, latitude, longitude, startDate, today, previous, result, app>>

\* the caller keeps the returned series and calls again with the same
\* arguments, in the same year or after the clock has passed a new year
GetYearlySunDataAgain ==
  /\ pc = "done" /\ op = "getYearlySunData"
  /\ previous = null
  /\ \E year \in {now, now + 1} :
       /\ year <= EpochYear + MaxYears
       /\ now' = year
       /\ result' = Some(yearlySeries(latitude, longitude, year))
  /\ previous' = Some([ret |-> result[1]])
  /\ UNCHANGED <<pc, op, latitude, longitude, startDate, today, i, locals, app>>

NextYearly ==
  \/ \E loc \in YearlyLocations : GetYearlySunData(loc[1], loc[2])
  \/ GetYearlySunDataAgain
  \/ NewYear
  \/ Return

SpecYearly == Init /\ [][NextYearly]_vars

(***************************************************************************)
(* Calls of getVitaminDBandsGeoJSON                                        *)
(***************************************************************************)
\* base dates at 12:00 UTC: those of the test suite, last days of months, and
\* days around the solstices and equinoxes
BandBaseDates ==
  { DateUTC(c[1], c[2], c[3], 12, 0) :
      c \in { <<2024, 2, 20>>, <<2024, 6, 20>>, <<2026, 1, 22>>, <<2024, 0, 31>>,
              <<2024, 9, 31>>, <<2024, 11, 31>>, <<2025, 0, 30>>, <<2025, 0, 29>>,
              <<2024, 7, 31>>, <<2024, 4, 31>>, <<2024, 2, 31>>, <<2024, 0, 15>>,
              <<2024, 3, 1>>, <<2024, 5, 6>>, <<2024, 8, 10>>, <<2024, 10, 28>>,
              <<2025, 11, 5>>, <<2025, 5, 21>> } }

NextBands ==
  \/ \E baseDate \in BandBaseDates : CallGetVitaminDBandsGeoJSON(baseDate)
  \/ BandsScanStep
  \/ Return

SpecBands == Init /\ [][NextBands]_vars

(***************************************************************************)
(* Calls of getVitaminDInfo for places at the edges of the band            *)
(***************************************************************************)
EdgeStep == 1
EdgeSteps == 12

\* day of 2024 and longitude (on the band's 2-degree grid): 20 March at 118 W,
\* 20 June at 90 E, 19 October at Greenwich
EdgeCases == { <<79, 0 - 118000>>, <<171, 90000>>, <<292, 0>> }

\* the latitude of the band's north or south edge that getVitaminDAreaGeoJSON
\* draws for the day at the longitude
edgeLatitude(day, lng, side) ==
  LET decDeg == noonDeclination(day * MinutesPerDay, lng)
  IN  IF side = "north" THEN Min(90000, decDeg + Threshold)
      ELSE Max(0 - 90000, decDeg - Threshold)

\* places up to EdgeSteps steps of EdgeStep millidegrees north and south of an edge
NextEdge ==
  \/ \E c \in EdgeCases, side \in {"north", "south"}, k \in (0 - EdgeSteps)..EdgeSteps :
       CallGetVitaminDInfo(edgeLatitude(c[1], c[2], side) + EdgeStep * k, c[2],
                           c[1] * MinutesPerDay + 12 * 60)
  \/ DayScanStep
  \/ MinuteScanStep
  \/ RecessionScanStep
  \/ Return

SpecEdge == Init /\ [][NextEdge]_vars

(***************************************************************************)
(* Properties of getVitaminDInfo                                           *)
(***************************************************************************)
\* a call of getVitaminDInfo has returned
Returned == pc = "done" /\ op = "getVitaminDInfo"

\* the noon altitude the code reads for the day k days after the start day
NoonAltOn(k) ==
  SunCalc_getPosition_altitude(
    SunCalc_getTimes(today + k * MinutesPerDay, latitude, longitude).solarNoon,
    latitude, longitude)

\* the days of the horizon, from day `from` on, whose noon altitude is >= 45
DaysAtThreshold(from) == { k \in from..(HorizonDays - 1) : NoonAltOn(k) >= Threshold }

\* the days 1..365 whose noon altitude is < 45
DaysBelowThreshold == { k \in 1..(HorizonDays - 1) : NoonAltOn(k) < Threshold }

Least(S) == CHOOSE x \in S : \A y \in S : x <= y
Greatest(S) == CHOOSE x \in S : \A y \in S : x >= y

\* C1: the returned vitaminDDate is the start day plus i for the smallest i in
\* 0..365 whose noon altitude is >= 45, daysUntilVitaminD is that i, and no
\* earlier day of the horizon has a noon altitude >= 45.
C1_DayScanFindsFirstDay ==
  Returned =>
     LET S == DaysAtThreshold(0)
     IN  S # {} =>
           /\ daysUntilVitaminD = Least(S)
           /\ vitaminDDate = Some(today + daysUntilVitaminD * MinutesPerDay)
           /\ \A k \in 0..(daysUntilVitaminD - 1) : k \notin S

C1_Witness == Returned /\ vitaminDDate # null /\ daysUntilVitaminD > 0

\* C2: if no day of the 366-day horizon has a noon altitude >= 45, the call
\* returns vitaminDDate = null, daysUntilVitaminD = 0 and null for
\* startTimeAbove45, endTimeAbove45, durationAbove45 and daysUntilBelow45.
C2_NeverReached ==
  (Returned /\ DaysAtThreshold(0) = {}) =>
     /\ vitaminDDate = null /\ daysUntilVitaminD = 0
     /\ startTimeAbove45 = null /\ endTimeAbove45 = null
     /\ durationAbove45 = null /\ daysUntilBelow45 = null

C2_Witness == Returned /\ vitaminDDate = null /\ i = HorizonDays

\* C3: daysUntilBelow45 is non-null only if daysUntilVitaminD is 0 and
\* vitaminDDate is non-null; when the threshold is first reached on a later day
\* daysUntilBelow45 is null.
C3_BelowOnlyWhenActiveToday ==
  Returned =>
     /\ daysUntilBelow45 # null => (daysUntilVitaminD = 0 /\ vitaminDDate # null)
     /\ daysUntilVitaminD > 0 => daysUntilBelow45 = null

C3_Witness == Returned /\ daysUntilVitaminD > 0 /\ NoonAltOn(1) < Threshold

\* C4: when the threshold is reached on the start day, daysUntilBelow45 is the
\* smallest i in 1..365 whose noon altitude on start day + i is below 45, and
\* null when every one of those days has a noon altitude >= 45.
C4_RecessionScan ==
  (Returned /\ NoonAltOn(0) >= Threshold) =>
     LET S == DaysBelowThreshold
     IN  daysUntilBelow45 = IF S = {} THEN null ELSE Some(Least(S))

C4_Witness == Returned /\ daysUntilBelow45 # null /\ daysUntilBelow45[1] > 1

\* the minutes of the UTC day of vitaminDDate whose altitude is >= 45
MinutesAtThreshold ==
  { m \in 0..(MinutesPerDay - 1) :
      SunCalc_getPosition_altitude(startOfUTCDay(vitaminDDate[1]) + m, latitude, longitude)
        >= Threshold }

\* C5: startTimeAbove45 is the first and endTimeAbove45 the last of the 1440
\* whole minutes 00:00..23:59 UTC of the qualifying day whose altitude is >= 45,
\* and durationAbove45 is their difference in minutes as '<h>h <m>m'.
C5_MinuteScan ==
  (Returned /\ vitaminDDate # null) =>
     LET S     == MinutesAtThreshold
         first == startOfUTCDay(vitaminDDate[1]) + Least(S)
         last  == startOfUTCDay(vitaminDDate[1]) + Greatest(S)
     IN  S # {} =>
           /\ startTimeAbove45 = Some(first)
           /\ endTimeAbove45 = Some(last)
           /\ durationAbove45 # null
           /\ durationAbove45[1].h * 60 + durationAbove45[1].m = last - first
           /\ durationAbove45[1].m \in 0..59

C5_Witness ==
  /\ Returned /\ startTimeAbove45 # null
  /\ endTimeAbove45[1] - startTimeAbove45[1] > 60

\* the call that has returned is for the day after the one `previous` is for
NextDayCall == Returned /\ previous # null

\* C6 as stated: daysUntilVitaminD from D and from D+1 differ by exactly 1,
\* unless the threshold is reached on both D and D+1, and then both are 0.
C6_AsStated ==
  (NextDayCall /\ previous[1].ret.vitaminDDate # null /\ vitaminDDate # null) =>
     IF NoonAltOn(0 - 1) >= Threshold /\ NoonAltOn(0) >= Threshold
     THEN previous[1].ret.daysUntilVitaminD = 0 /\ daysUntilVitaminD = 0
     ELSE Abs(previous[1].ret.daysUntilVitaminD - daysUntilVitaminD) = 1

\* C6, amended: if the threshold is not reached on D and the scan from D finds
\* a day, the scan from D+1 finds the same day and reports one day less; if it
\* is reached on both D and D+1 both report 0; if it is reached on D but not on
\* D+1, D reports 0 and D+1 reports a positive number of days or no day at all.
C6_Monotonicity ==
  NextDayCall =>
     LET a == previous[1].ret
     IN  /\ (a.vitaminDDate # null /\ a.daysUntilVitaminD > 0) =>
              /\ vitaminDDate = a.vitaminDDate
              /\ daysUntilVitaminD = a.daysUntilVitaminD - 1
         /\ (NoonAltOn(0 - 1) >= Threshold /\ NoonAltOn(0) >= Threshold) =>
              (a.daysUntilVitaminD = 0 /\ daysUntilVitaminD = 0)
         /\ (NoonAltOn(0 - 1) >= Threshold /\ NoonAltOn(0) < Threshold) =>
              /\ a.daysUntilVitaminD = 0 /\ a.vitaminDDate # null
              /\ (daysUntilVitaminD > 0 \/ vitaminDDate = null)

C6_Witness ==
  /\ NextDayCall
  /\ previous[1].ret.vitaminDDate # null /\ previous[1].ret.daysUntilVitaminD > 1

\* C9: at latitude 0, for every start date, daysUntilVitaminD = 0 and
\* daysUntilBelow45 = null.
C9_EquatorPermanence ==
  (Returned /\ latitude = 0) =>
     (vitaminDDate # null /\ daysUntilVitaminD = 0 /\ daysUntilBelow45 = null)

C9_Witness == Returned /\ latitude = 0 /\ longitude # 0 /\ DayOf(startDate) > 2 * DayStride

(***************************************************************************)
(* Properties of getSunStats                                               *)
(***************************************************************************)
\* the noon altitude getSunStats computes for its arguments, before Math.max
\* and toFixed
StatsNoonAltitude ==
  SunCalc_getPosition_altitude(
    SunCalc_getTimes(startDate, latitude, longitude).solarNoon, latitude, longitude)

\* C7 as stated: the day length getSunStats returns is the difference of sunset
\* and sunrise as hours and minutes (minutes in 0..59) when both are valid and
\* sunset is after sunrise; otherwise it is 24h 0m if the noon altitude is
\* positive and 0h 0m if it is not.
C7_AsStated ==
  (pc = "done" /\ op = "getSunStats") =>
     LET times == SunCalc_getTimes(startDate, latitude, longitude)
         dayLength == result[1].dayLength
     IN  IF /\ times.sunrise # null /\ times.sunset # null
            /\ times.sunset[1] > times.sunrise[1]
         THEN /\ dayLength.h * 60 + dayLength.m = times.sunset[1] - times.sunrise[1]
              /\ dayLength.m \in 0..59
         ELSE dayLength = IF StatsNoonAltitude > 0 THEN [h |-> 24, m |-> 0]
                          ELSE [h |-> 0, m |-> 0]

ScannedNoonAltitude == noonAltitude(addDays(today, i), latitude, longitude)

\* the altitude of the minute the minute scan is at
ScannedMinuteAltitude ==
  SunCalc_getPosition_altitude(startOfUTCDay(vitaminDDate[1]) + i, latitude, longitude)

Scanning == op = "getVitaminDInfo" /\ pc \in {"dayScan", "minuteScan", "recessionScan"}

\* an upper bound of the number of iterations getVitaminDInfo has still to make
ScanRank ==
  IF pc = "dayScan" THEN (HorizonDays - i) + MinutesPerDay + HorizonDays
  ELSE IF pc = "minuteScan" THEN (MinutesPerDay - i) + HorizonDays
  ELSE IF pc = "recessionScan" THEN HorizonDays - i
  ELSE 0

\* C20: getVitaminDInfo terminates: every iteration lowers a bound that is never
\* negative; the day scan evaluates days 0..365 at most and leaves at the first
\* day that reaches the threshold; the minute scan evaluates each of the 1440
\* minutes; the recession scan evaluates days 1..365 at most and returns at the
\* first day below the threshold.
C20_Terminates ==
  [][ Scanning =>
        /\ ScanRank' < ScanRank /\ ScanRank' >= 0
        /\ pc = "dayScan" =>
              /\ i \in 0..(HorizonDays - 1)
              /\ pc' = IF reachesThreshold(ScannedNoonAltitude) THEN "minuteScan"
                       ELSE IF i < HorizonDays - 1 THEN "dayScan" ELSE "done"
        /\ pc = "minuteScan" =>
              /\ i \in 0..(MinutesPerDay - 1)
              /\ IF i < MinutesPerDay - 1 THEN pc' = "minuteScan" /\ i' = i + 1
                 ELSE pc' \in {"recessionScan", "done"}
        /\ pc = "recessionScan" =>
              /\ i \in 1..(HorizonDays - 1)
              /\ pc' = IF belowThreshold(ScannedNoonAltitude) THEN "done"
                       ELSE IF i < HorizonDays - 1 THEN "recessionScan" ELSE "done" ]_vars

\* getVitaminDInfo has returned after a day scan of all 366 days that found no day
C20_Witness ==
  /\ pc = "done" /\ op = "getVitaminDInfo"
  /\ i = HorizonDays
  /\ vitaminDDate = null

(***************************************************************************)
(* Properties of getYearlySunData                                          *)
(***************************************************************************)
\* C14: the yearly series has exactly 12 entries in calendar order Jan..Dec;
\* entry m is the greater of 0 and the noon altitude on the 15th of month m of
\* the year, so every angle is at least 0.
C14_YearlySeries ==
  (pc = "done" /\ op = "getYearlySunData") =>
     LET data == result[1]
     IN  /\ Len(data) = 12
         /\ [ k \in 1..12 |-> data[k].month ] = monthNames
         /\ \A k \in 1..12 :
              LET fifteenth == DateUTC(now, k - 1, 15, 12, 0)
                  solarNoon == SunCalc_getTimes(fifteenth, latitude, longitude).solarNoon
              IN  /\ Abs(solarNoon - fifteenth) <= 13 * 60
                  /\ data[k].angle = Max(0, noonAltitude(fifteenth, latitude, longitude))
                  /\ data[k].angle >= 0

\* a series with months of darkness and months of sun, in a year after the first
C14_Witness ==
  /\ pc = "done" /\ op = "getYearlySunData"
  /\ now > EpochYear
  /\ result[1][1].angle = 0
  /\ result[1][6].angle > 20000

\* WebGL is unavailable: both checks of mapboxgl.supported fail
WebGLUnavailable == app.mounted /\ ~app.supported[1] /\ ~app.supported[2]

\* C18: when WebGL is unavailable the App shows the 'Map Unavailable' overlay
\* (mapError is set) and mapboxgl.Map has not been called, after the first
\* render and after every run of the initialization effect.
C18_NoMapWithoutWebGL ==
  WebGLUnavailable => (app.mapError # null /\ app.mapCalls = 0 /\ ~app.mapRef)

\* the effect has run for the third time without WebGL
C18_Witness ==
  /\ WebGLUnavailable
  /\ app.runs >= 3 /\ ~app.effectPending
  /\ app.mapError = Some("webgl-unavailable")
  /\ app.mapCalls = 0

\* C17 as stated: the functions are pure, so that a second call of
\* getYearlySunData with the arguments of the first returns a series equal to
\* the first.
C17_AsStated ==
  (pc = "done" /\ op = "getYearlySunData" /\ previous # null) =>
     result[1] = previous[1].ret

(***************************************************************************)
(* Properties of getVitaminDBandsGeoJSON                                   *)
(***************************************************************************)
\* the UTC day k calendar months after the day of `date`: the day of the k-th
\* following month with the same day number, or the last day of that month if
\* it has no such day
SameDayOfMonth(date, k) ==
  LET base == DayOf(date)
      inMonth == { d \in (base + 28 * k - 4)..(base + 31 * k) :
                     getUTCMonth(d * MinutesPerDay) = (getUTCMonth(date) + k) % 12 }
      same == { d \in inMonth : getUTCDate(d * MinutesPerDay) = getUTCDate(date) }
  IN  IF same # {} THEN Greatest(same) ELSE Greatest(inMonth)

BandsReturned == pc = "done" /\ op = "getVitaminDBandsGeoJSON"

EdgeOfStep(k, side) ==
  LET feature == result[1].features[2 * k + (IF side = "north" THEN 1 ELSE 2)]
  IN  [ j \in DOMAIN sweepLongitudes |-> feature.geometry.coordinates[j][2] ]

RecedingOfStep(k, side) ==
  result[1].features[2 * k + (IF side = "north" THEN 1 ELSE 2)].properties.isReceding

FiniteLatitude(x) == IsFinite(x) /\ x.num >= 0 - 90000 /\ x.num <= 90000

TerminatorReturned == pc = "done" /\ op = "getTerminatorGeoJSON"

\* C21: the fill ring of getTerminatorGeoJSON is the terminator samples in
\* increasing longitude order, then the two corners of the pole in darkness,
\* (180, -90) and (-180, -90) when the declination is positive and (180, 90) and
\* (-180, 90) otherwise, then the first sample again, so that the ring is
\* closed; the boundary line is exactly the samples.
C21_TerminatorRing ==
  TerminatorReturned =>
     LET ring == result[1].features[1].geometry.coordinates[1]
         line == result[1].features[2].geometry.coordinates
         count == Len(line)
         sun == getSubsolarPoint(startDate)
         pole == IF sun.lat > 0 THEN Num(0 - 90000) ELSE Num(90000)
     IN  /\ count = Len(sweepLongitudes)
         /\ \A k \in 1..count :
              /\ line[k][1] = sweepLongitudes[k]
              /\ line[k][2] = terminatorLatitude(sweepLongitudes[k] - sun.lng, sun.lat)
              /\ ring[k] = line[k]
         /\ \A k \in 1..(count - 1) : line[k][1] < line[k + 1][1]
         /\ Len(ring) = count + 3
         /\ ring[count + 1] = <<180000, pole>>
         /\ ring[count + 2] = <<0 - 180000, pole>>
         /\ ring[count + 3] = line[1]
         /\ ring[1] = ring[Len(ring)]

\* a night polygon closed over the north pole, in the northern winter
C21_Witness ==
  /\ TerminatorReturned
  /\ getSubsolarPoint(startDate).lat < 0 - 20000
  /\ result[1].features[1].geometry.coordinates[1][Len(sweepLongitudes) + 1]
       = <<180000, Num(90000)>>

\* the features of a collection whose layerType is `layer`
FeaturesOfLayer(fc, layer) ==
  { k \in DOMAIN fc.features : fc.features[k].properties.layerType = layer }

\* C10: getVitaminDAreaGeoJSON and getTerminatorGeoJSON return a
\* FeatureCollection whose features all carry layerType 'fill' or 'boundary',
\* with exactly one 'fill' feature, a Polygon, and exactly one 'boundary'
\* feature, a MultiLineString for the band and a LineString for the terminator.
C10_LayeredFeatureCollection ==
  (pc = "done" /\ op \in {"getVitaminDAreaGeoJSON", "getTerminatorGeoJSON"}) =>
     LET fc == result[1]
     IN  /\ fc.type = "FeatureCollection"
         /\ \A k \in DOMAIN fc.features :
              /\ fc.features[k].type = "Feature"
              /\ fc.features[k].properties.layerType \in {"fill", "boundary"}
         /\ Cardinality(FeaturesOfLayer(fc, "fill")) = 1
         /\ Cardinality(FeaturesOfLayer(fc, "boundary")) = 1
         /\ \A k \in FeaturesOfLayer(fc, "fill") :
              fc.features[k].geometry.type = "Polygon"
         /\ \A k \in FeaturesOfLayer(fc, "boundary") :
              fc.features[k].geometry.type =
                IF op = "getVitaminDAreaGeoJSON" THEN "MultiLineString" ELSE "LineString"

C10_Witness ==
  /\ pc = "done" /\ op = "getVitaminDAreaGeoJSON"
  /\ result # null
  /\ Len(result[1].features[2].geometry.coordinates) = 2

\* the ring of the fill polygon of a band collection
FillRing(fc) == fc.features[1].geometry.coordinates[1]

AreaReturned == pc = "done" /\ op = "getVitaminDAreaGeoJSON"

\* the south and the north edge: the two curves of the boundary feature
SouthEdge == result[1].features[2].geometry.coordinates[1]
NorthEdge == result[1].features[2].geometry.coordinates[2]

\* C22: at every sampled longitude the south edge of the band is dec - 45 and
\* the north edge dec + 45, each clamped to [-90, 90], where dec is the
\* declination at the local solar noon of the longitude (within 0.01 degree of
\* the declination SunCalc uses at that instant); so at every point of both
\* curves -90 <= south <= north <= 90 and north - south <= 90.
C22_BandEdges ==
  AreaReturned =>
     \A k \in DOMAIN sweepLongitudes :
        LET lng == sweepLongitudes[k]
            solarNoon == SunCalc_getTimes(startOfUTCDay(startDate), 0, lng).solarNoon
            dec == getSubsolarPoint(solarNoon).lat
            south == SouthEdge[k][2]
            north == NorthEdge[k][2]
        IN  /\ SouthEdge[k][1] = lng /\ NorthEdge[k][1] = lng
            /\ Abs(dec - DeclinationAt(solarNoon)) <= 10
            /\ south = Max(0 - 90000, dec - Threshold)
            /\ north = Min(90000, dec + Threshold)
            /\ 0 - 90000 <= south /\ south <= north /\ north <= 90000
            /\ north - south <= 90000

\* a band whose edges differ between longitudes and are 90 degrees apart
C22_Witness ==
  /\ AreaReturned
  /\ NorthEdge[1][2] - SouthEdge[1][2] = 2 * Threshold
  /\ NorthEdge[91][2] # NorthEdge[1][2]

\* C24: getSubsolarPoint returns as longitude 15 degrees for every hour from the
\* given instant to the solar noon of (0, 0): positive before that noon, negative
\* after it, and the sun is overhead (within a degree) at the returned point.
\* Given no solar noon, it returns (12 - UTC hours) * 15 and a defined latitude.
C24_SubsolarLongitude ==
  TerminatorReturned =>
     LET solarNoonAtZero == SunCalc_getTimes(startDate, 0, 0).solarNoon
         sun == getSubsolarPoint(startDate)
         fallback == subsolarPointGiven(startDate, null)
     IN  /\ sun.lng * 60 = 15000 * (solarNoonAtZero - startDate)
         /\ (startDate < solarNoonAtZero) = (sun.lng > 0)
         /\ (startDate > solarNoonAtZero) = (sun.lng < 0)
         /\ SunCalc_getPosition_altitude(startDate, sun.lat, sun.lng) >= 89000
         /\ result[1].features[2].geometry.coordinates[1][2]
              = terminatorLatitude(0 - 180000 - sun.lng, sun.lat)
         /\ fallback.lng * 60 = 15000 * (12 * 60 - MinuteOf(startDate))
         /\ fallback.lat = sun.lat

\* a terminator computed after the solar noon of (0, 0), the sun to the west
C24_Witness ==
  /\ TerminatorReturned
  /\ startDate > SunCalc_getTimes(startDate, 0, 0).solarNoon
  /\ getSubsolarPoint(startDate).lng < 0 - 10000

\* C25, as stated: a returned non-null vitaminDDate comes with non-null
\* startTimeAbove45, endTimeAbove45 and durationAbove45, because the minute scan
\* of that UTC day finds a minute at or above the threshold.
C25_AsStated ==
  (Returned /\ vitaminDDate # null) =>
     /\ startTimeAbove45 # null
     /\ endTimeAbove45 # null
     /\ durationAbove45 # null

\* C26, as stated: the reported window is contiguous: every whole minute from
\* startTimeAbove45 to endTimeAbove45 has altitude >= 45, so the reported
\* duration is the time spent at or above the threshold on that UTC day.
C26_AsStated ==
  (Returned /\ startTimeAbove45 # null) =>
     LET S == MinutesAtThreshold
         startOfDay == startOfUTCDay(vitaminDDate[1])
     IN  /\ \A m \in (startTimeAbove45[1] - startOfDay)..(endTimeAbove45[1] - startOfDay) : m \in S
         /\ durationAbove45[1].h * 60 + durationAbove45[1].m = Cardinality(S) - 1

\* C27: whatever the time of day of startDate, a non-null vitaminDDate is 00:00
\* UTC of startDate's UTC calendar day plus daysUntilVitaminD whole days, and
\* startTimeAbove45 and endTimeAbove45 are instants of that same UTC day.
C27_DatesOnUTCDays ==
  (Returned /\ vitaminDDate # null) =>
     LET midnight == (startDate \div MinutesPerDay) * MinutesPerDay
         day == midnight + daysUntilVitaminD * MinutesPerDay
     IN  /\ vitaminDDate[1] = day
         /\ startTimeAbove45 # null =>
              /\ day <= startTimeAbove45[1]
              /\ startTimeAbove45[1] <= endTimeAbove45[1]
              /\ endTimeAbove45[1] < day + MinutesPerDay

\* a call at 13:07 or 23:59 UTC whose threshold day is a later one
C27_Witness ==
  /\ Returned /\ vitaminDDate # null /\ startTimeAbove45 # null
  /\ startDate % MinutesPerDay # 0
  /\ daysUntilVitaminD > 0

\* C28: the day scan and the recession scan agree.  If the call from day D
\* returned daysUntilBelow45 = k, the noon altitude the day scan tests is at or
\* above the threshold on every day D+j, 0 <= j < k, and below it on day D+k; and
\* the call from day D+1 returns daysUntilVitaminD = 0 and daysUntilBelow45 =
\* k - 1 if k > 1, and daysUntilVitaminD > 0 or a null vitaminDDate if k = 1.
C28_ScansAgree ==
  /\ (Returned /\ daysUntilBelow45 # null) =>
        /\ daysUntilVitaminD = 0
        /\ \A j \in 0..(daysUntilBelow45[1] - 1) : NoonAltOn(j) >= Threshold
        /\ NoonAltOn(daysUntilBelow45[1]) < Threshold
  /\ (NextDayCall /\ previous[1].ret.daysUntilBelow45 # null) =>
        LET k == previous[1].ret.daysUntilBelow45[1]
        IN  IF k > 1
            THEN /\ vitaminDDate # null /\ daysUntilVitaminD = 0
                 /\ daysUntilBelow45 = Some(k - 1)
            ELSE daysUntilVitaminD > 0 \/ vitaminDDate = null

\* a call from the day after one that reported several days until recession
C28_Witness ==
  /\ NextDayCall
  /\ previous[1].ret.daysUntilBelow45 # null
  /\ previous[1].ret.daysUntilBelow45[1] > 1
  /\ daysUntilBelow45 # null

\* C29, as stated: when no response of the geocoding service is outstanding, the
\* city name shown is the one fetched for the place selected last (its name, or
\* 'Unknown Location' when the service had none), whatever the order in which
\* the responses arrived.
C29_AsStated ==
  (app.mounted /\ app.clicked # null /\ app.requests = {}) =>
     app.cityName \in { placeText(app.clicked[1]), "Unknown Location" }

\* C30: in getVitaminDAreaGeoJSON and getTerminatorGeoJSON the sweep from -180
\* in steps of 2 degrees ends at 180 exactly: every curve has 181 samples, from
\* -180 to 180, each 2 degrees east of the one before, and no sample is
\* appended by the 'ensure exactly 180' branch.
C30_SweepEndsAt180 ==
  /\ AreaReturned =>
        \A e \in 1..2 :
           LET curve == result[1].features[2].geometry.coordinates[e]
               count == Len(curve)
           IN  /\ count = 181
               /\ curve[1][1] = 0 - 180000 /\ curve[count][1] = 180000
               /\ \A k \in 1..(count - 1) : curve[k + 1][1] = curve[k][1] + 2000
  /\ TerminatorReturned =>
        LET curve == result[1].features[2].geometry.coordinates
            count == Len(curve)
        IN  /\ count = 181
            /\ curve[1][1] = 0 - 180000 /\ curve[count][1] = 180000
            /\ \A k \in 1..(count - 1) : curve[k + 1][1] = curve[k][1] + 2000
            /\ Len(result[1].features[1].geometry.coordinates[1]) = count + 3

\* a band whose last sample, the 181st, is the one the loop made at 180
C30_Witness ==
  /\ AreaReturned
  /\ Len(SouthEdge) = 181 /\ Len(NorthEdge) = 181
  /\ SouthEdge[181] = <<180000, noonDeclination(startOfUTCDay(startDate), 180000) - Threshold>>
  /\ SouthEdge[180][1] = 178000

\* C23: the fill ring of getVitaminDAreaGeoJSON is the south-edge points west to
\* east, then the north-edge points east to west, then the first south-edge
\* point again; the boundary feature holds exactly the two edges, south first,
\* each west to east.
C23_BandRing ==
  AreaReturned =>
     LET ring == FillRing(result[1])
         count == Len(sweepLongitudes)
     IN  /\ Len(result[1].features[2].geometry.coordinates) = 2
         /\ Len(SouthEdge) = count /\ Len(NorthEdge) = count
         /\ \A k \in 1..(count - 1) :
              /\ SouthEdge[k][1] < SouthEdge[k + 1][1]
              /\ NorthEdge[k][1] < NorthEdge[k + 1][1]
         /\ \A k \in 1..count : SouthEdge[k][2] <= NorthEdge[k][2]
         /\ Len(ring) = 2 * count + 1
         /\ \A k \in 1..count :
              /\ ring[k] = SouthEdge[k]
              /\ ring[count + k] = NorthEdge[count + 1 - k]
         /\ ring[2 * count + 1] = SouthEdge[1]

\* a ring that turns at (180, north) and ends where it began
C23_Witness ==
  /\ AreaReturned
  /\ FillRing(result[1])[Len(sweepLongitudes) + 1] = NorthEdge[Len(sweepLongitudes)]
  /\ FillRing(result[1])[Len(sweepLongitudes) + 1][1] = 180000
  /\ FillRing(result[1])[2 * Len(sweepLongitudes) + 1] = FillRing(result[1])[1]

\* the latitudes of the ring's points whose longitude is lng
LatitudesAt(ring, lng) == { ring[k][2] : k \in { j \in DOMAIN ring : ring[j][1] = lng } }

ActiveToday == vitaminDDate = Some(today) /\ daysUntilVitaminD = 0

\* the returned call is for a place whose longitude the band samples
ReturnedOnGrid ==
  Returned /\ \E k \in DOMAIN sweepLongitudes : sweepLongitudes[k] = longitude

\* the south and north edge of the band of startDate at the place's longitude
BandEdgesHere ==
  CHOOSE e \in { [south |-> Least(lats), north |-> Greatest(lats)] :
                   lats \in { LatitudesAt(ring, longitude) :
                              ring \in { FillRing(getVitaminDAreaGeoJSON(startDate)) } } } : TRUE

====
